---- MODULE Spec2Model ----
(***************************************************************************)
(* Model of the ruleset updater of HTTPS Everywhere,                       *)
(* src/chrome/content/code/rulesetUpdate.js: fetchUpdate ->                *)
(* conditionallyApplyUpdate -> signature callback -> fetchRulesetDBFile -> *)
(* xhr.onload -> applyNewRuleset.                                          *)
(*                                                                         *)
(* JavaScript runs every callback to completion on one thread, so each     *)
(* callback is one action.  Strings whose characters matter (versions) are *)
(* sequences of one-character strings.                                     *)
(***************************************************************************)
EXTENDS Integers, Sequences, FiniteSets

VARIABLES
  pc,          \* per attempt: which response the attempt is waiting for
  update,      \* per attempt: the raw manifest body captured by the closure (line 89)
  sigVerdict,  \* per attempt: what verifyUpdateSignature returned (line 113)
  passed,      \* per attempt: the arguments it gave verifyUpdateSignature and fetchRulesetDBFile
  artifact,    \* per attempt: xhr.response seen by onload (line 184)
  outcome,     \* per attempt: how the attempt ended
  reqs,        \* per attempt: the requests it has issued, in order
  applyCalls,  \* per attempt: number of executions of applyNewRuleset
  afterApply,  \* per attempt: applyNewRuleset had already run when the attempt started
  tmpFile,     \* contents of the file at TMP_RULESET_DBFILE_PATH
  mainDB,      \* tables of rulesets.sqlite, the live database
  dbHash,      \* the implicit global assigned at line 197
  prefs,       \* the preference branch read through _prefs
  initCalls,   \* number of calls of HTTPSRules.init
  vin,         \* arguments of a stand-alone call of checkVersionRequirements
  vout         \* its result

vars == <<pc, update, sigVerdict, passed, artifact, outcome, reqs, applyCalls, afterApply,
          tmpFile, mainDB, dbHash, prefs, initCalls, vin, vout>>

-----------------------------------------------------------------------------
(* Bounds *)

MaxAttempts == 2

Attempts == 1..MaxAttempts

-----------------------------------------------------------------------------
(* Strings: JavaScript String.prototype.lastIndexOf and slice *)

DigitVal(c) ==
  CASE c = "0" -> 0 [] c = "1" -> 1 [] c = "2" -> 2 [] c = "3" -> 3 [] c = "4" -> 4
    [] c = "5" -> 5 [] c = "6" -> 6 [] c = "7" -> 7 [] c = "8" -> 8 [] c = "9" -> 9

Max(S) == CHOOSE x \in S : \A y \in S : y <= x

\* s.lastIndexOf(c): 0-based index of the last occurrence, -1 when there is none
LastIndexOf(s, c) ==
  LET hits == {i \in 1..Len(s) : s[i] = c}
  IN  IF hits = {} THEN -1 ELSE Max(hits) - 1

\* s.slice(0, end): a negative end counts from the end of the string
Slice0(s, end) ==
  LET e0 == IF end < 0 THEN Len(s) + end ELSE end
      e  == IF e0 < 0 THEN 0 ELSE IF e0 > Len(s) THEN Len(s) ELSE e0
  IN  SubSeq(s, 1, e)

-----------------------------------------------------------------------------
(* nsIVersionComparator.compare on versions made of digits and dots: the    *)
(* parts between dots are read as decimal numbers (an empty part reads 0),  *)
(* compared left to right, a missing part counting as 0.                    *)

RECURSIVE SplitDots(_)
SplitDots(s) ==
  LET i == LastIndexOf(s, ".")
  IN  IF i = -1 THEN <<s>>
      ELSE Append(SplitDots(SubSeq(s, 1, i)), SubSeq(s, i + 2, Len(s)))

RECURSIVE ParseNum(_)
ParseNum(p) ==
  IF p = <<>> THEN 0
  ELSE 10 * ParseNum(SubSeq(p, 1, Len(p) - 1)) + DigitVal(p[Len(p)])

VersionParts(s) ==
  LET raw == SplitDots(s) IN [i \in 1..Len(raw) |-> ParseNum(raw[i])]

PartAt(ps, i) == IF i <= Len(ps) THEN ps[i] ELSE 0

RECURSIVE ComparePartsFrom(_, _, _)
ComparePartsFrom(pa, pb, i) ==
  IF i > Len(pa) /\ i > Len(pb) THEN 0
  ELSE IF PartAt(pa, i) < PartAt(pb, i) THEN -1
  ELSE IF PartAt(pa, i) > PartAt(pb, i) THEN 1
  ELSE ComparePartsFrom(pa, pb, i + 1)

VersionCompare(a, b) == ComparePartsFrom(VersionParts(a), VersionParts(b), 1)

-----------------------------------------------------------------------------
(* checkVersionRequirements, lines 138-147 *)

newRulesetExtVer(newVersion) == Slice0(newVersion, LastIndexOf(newVersion, "."))

sameExtVer_prefix(extVersion, newVersion) ==
  VersionCompare(newRulesetExtVer(extVersion), newRulesetExtVer(newVersion)) = 0

sameExtVer(extVersion, newVersion) ==
  VersionCompare(extVersion, newRulesetExtVer(newVersion)) = 0

newRSVer(rsVersion, newVersion) == VersionCompare(newVersion, rsVersion) > 0

checkVersionRequirements(extVersion, rsVersion, newVersion) ==
  sameExtVer(extVersion, newVersion) /\ newRSVer(rsVersion, newVersion)

-----------------------------------------------------------------------------
(* Values *)

\* a version string, written as its characters
V12   == <<"1", ".", "2">>
V120  == <<"1", ".", "2", ".", "0">>
V121  == <<"1", ".", "2", ".", "1">>
V123  == <<"1", ".", "2", ".", "3">>
V125  == <<"1", ".", "2", ".", "5">>
V130  == <<"1", ".", "3", ".", "0">>
V1231 == <<"1", ".", "2", ".", "3", ".", "1">>
V1    == <<"1">>
V14   == <<"1", "4">>
V15   == <<"1", "5">>
V19   == <<"1", ".", "9">>
V110  == <<"1", ".", "1", "0">>
V1101 == <<"1", ".", "1", "0", ".", "1">>

\* a property that a parsed manifest does not have
Undefined == <<"undefined">>

\* the value hashBinaryFile returns for an unknown hashfn (line 160)
Null == <<"null">>

\* the artifacts a server can answer with; "junk" is not an SQLite file
Artifacts == {"dbA", "dbB", "junk"}

\* xhr.response when nothing was downloaded
NoData == "null"

\* no file at TMP_RULESET_DBFILE_PATH
NoFile == "none"

\* nsICryptoHash: the digest of a file under a hash function, as hex text
Digest(hashfn, bytes) == <<hashfn, bytes>>

\* a raw update.json body and the fields JSON.parse finds in it
Body(kind, version, branch, source, hashfn, hash) ==
  [kind |-> kind, version |-> version, branch |-> branch, source |-> source,
   hashfn |-> hashfn, hash |-> hash]

GoodBody == Body("json", V121, "stable", "https://db", "sha256", Digest("sha256", "dbA"))

NoBody == Body("none", Undefined, "", "", "", Null)

Garbage == Body("garbage", Undefined, "", "", "", Null)

Forged == Body("forged", Undefined, "", "", "", Null)

\* the bodies a manifest request can return: the good manifest (its hash is the
\* digest of artifact dbA, so any other artifact is a digest mismatch), the ones
\* that differ from it in one field, a body without version, and unparseable text
Bodies ==
  { GoodBody,
    [GoodBody EXCEPT !.version = V120],
    [GoodBody EXCEPT !.version = V130],
    [GoodBody EXCEPT !.version = Undefined],
    [GoodBody EXCEPT !.branch = "beta"],
    [GoodBody EXCEPT !.source = "http://db"],
    [GoodBody EXCEPT !.hashfn = "sha3"],
    Garbage }

\* a signature response: the body it signs under the publisher's key, and
\* whether whitespace surrounds it
Signatures == [pad : BOOLEAN, signs : Bodies \cup {Forged}]

\* the tables of the live database before any update
OldTables == [rulesets |-> <<"r0">>, targets |-> <<"t0">>]

\* a table that does not exist
NoTable == <<"no such table">>

\* whether Services.storage.openDatabase can open a file with these bytes
IsSqlite(bytes) == bytes \in {"dbA", "dbB"}

\* the tables of a downloaded database
TempTables(bytes) ==
  IF bytes = "dbA" THEN [rulesets |-> <<"rA">>, targets |-> <<"tA1", "tA2">>]
  ELSE IF bytes = "dbB" THEN [rulesets |-> <<"rB1", "rB2">>, targets |-> <<"tB">>]
  ELSE [rulesets |-> NoTable, targets |-> NoTable]

\* the preferences the updater reads (lines 96-98); nothing here writes them
InitPrefs ==
  [release_version |-> V12, branch_name |-> "stable", ruleset_version |-> V120]

-----------------------------------------------------------------------------
(* conditionallyApplyUpdate up to the signature request, lines 89-109 *)

\* JSON.parse(update) succeeds (line 95); otherwise it throws SyntaxError
JSONParses(upd) == upd.kind = "json"

branchMatches_inverted(updateObj, extBranch) == updateObj.branch # extBranch

branchMatches_ignored(updateObj, extBranch) == TRUE

\* line 104, negated: the manifest is for the installed branch
branchMatches(updateObj, extBranch) == updateObj.branch = extBranch

manifestStage_skipsVersionGate(upd, p) ==
  IF ~JSONParses(upd) THEN "SyntaxError"
  ELSE IF upd.version = Undefined THEN "TypeError"
  ELSE IF ~branchMatches(upd, p.branch_name) THEN "branchGate"
  ELSE "signature"

\* where conditionallyApplyUpdate leaves the attempt
manifestStage(upd, p) ==
  IF ~JSONParses(upd) THEN "SyntaxError"                       \* line 95 throws
  ELSE IF upd.version = Undefined THEN "TypeError"             \* line 143 throws
  ELSE IF ~checkVersionRequirements(p.release_version, p.ruleset_version, upd.version)
       THEN "versionGate"                                      \* line 102
  ELSE IF ~branchMatches(upd, p.branch_name) THEN "branchGate" \* line 106
  ELSE "signature"                                             \* line 109

-----------------------------------------------------------------------------
(* the signature callback, lines 110-121, and verifyUpdateSignature *)

\* signature.trim(), line 111
trim(sig) == [sig EXCEPT !.pad = FALSE]

\* nsIDataSignatureVerifier.verifyData under RULESET_UPDATE_KEY, lines 127-132
verifyUpdateSignature(updateStr, signature) ==
  signature.pad = FALSE /\ signature.signs = updateStr

signatureAccepted_always(updateStr, signature) == TRUE

\* the condition of the if at line 113
signatureAccepted(updateStr, signature) == verifyUpdateSignature(updateStr, signature)

-----------------------------------------------------------------------------
(* hashBinaryFile, lines 149-171 *)

SupportedHashFns == {"md5", "sha1", "sha256", "sha384", "sha512"}

hashBinaryFile(bytes, hashfn) ==
  IF hashfn \in SupportedHashFns THEN Digest(hashfn, bytes) ELSE Null

\* lines 199-206: the comparison dbHash == hash is commented out, so
\* applyNewRuleset is called whatever the two values are
hashAccepted(computed, expected) == TRUE

-----------------------------------------------------------------------------
(* applyNewRuleset, lines 218-249.  The result is the live database, the   *)
(* staged file, the number of calls of HTTPSRules.init and whether an      *)
(* exception left the function.                                            *)

Thrown(main, file) == [main |-> main, file |-> file, inits |-> 0, threw |-> TRUE]

applyNewRuleset(main, file) ==
  LET temp == TempTables(file)
      m1   == [main EXCEPT !.rulesets = NoTable]
      m2   == [m1 EXCEPT !.targets = NoTable]
      m3   == [m2 EXCEPT !.targets = @ \o temp.targets]
      m4   == [m3 EXCEPT !.rulesets = @ \o temp.rulesets]
  IN  IF ~IsSqlite(file) THEN Thrown(main, file)              \* 220: not a database
      ELSE IF main.rulesets = NoTable THEN Thrown(main, file) \* 225: no such table
      ELSE IF m1.targets = NoTable THEN Thrown(m1, file)      \* 226: no such table
      ELSE IF temp.targets = NoTable THEN Thrown(m2, file)    \* 228: no such table
      ELSE IF m2.targets = NoTable THEN Thrown(m2, file)      \* 229: targets was dropped at 226
      ELSE IF temp.rulesets = NoTable THEN Thrown(m3, file)   \* 236
      ELSE IF m3.rulesets = NoTable THEN Thrown(m3, file)     \* 237: rulesets was dropped at 225
      ELSE Thrown(m4, file)   \* 243: Ci.nsILocalFIle is undefined, createInstance throws

-----------------------------------------------------------------------------
(* what the callbacks of one call of conditionallyApplyUpdate share *)

\* no call of fetchRulesetDBFile yet
NoArgs == [url |-> "", hashfn |-> "", hash |-> Null]

\* the arguments of fetchRulesetDBFile at line 115
fetchArgs(updateObj) ==
  [url |-> updateObj.source, hashfn |-> updateObj.hashfn, hash |-> updateObj.hash]

capturedUpdate_shared(a) ==
  update[Max({b \in Attempts : b = a \/ update[b] # NoBody})]

\* update and updateObj are a parameter and a var of conditionallyApplyUpdate
\* (lines 89, 95): the signature callback is a closure over those of its own call
capturedUpdate(a) == update[a]

writeByteArray_keepsOld(oldFile, byteArray) ==
  IF oldFile = NoFile THEN byteArray ELSE oldFile

\* lines 188-196: the output stream is opened with the default flags (write,
\* create, truncate), so the file holds the downloaded bytes and nothing else
writeByteArray(oldFile, byteArray) == byteArray

-----------------------------------------------------------------------------
(* Initial state *)

PipelineInit ==
  /\ pc = [a \in Attempts |-> "idle"]
  /\ update = [a \in Attempts |-> NoBody]
  /\ sigVerdict = [a \in Attempts |-> "none"]
  /\ passed = [a \in Attempts |-> [verify |-> NoBody, fetch |-> NoArgs]]
  /\ artifact = [a \in Attempts |-> "none"]
  /\ outcome = [a \in Attempts |-> "none"]
  /\ reqs = [a \in Attempts |-> <<>>]
  /\ applyCalls = [a \in Attempts |-> 0]
  /\ afterApply = [a \in Attempts |-> FALSE]
  /\ tmpFile = NoFile
  /\ mainDB = OldTables
  /\ dbHash = Undefined
  /\ prefs = InitPrefs
  /\ initCalls = 0

Init ==
  /\ PipelineInit
  /\ vin = [ext |-> V12, rs |-> V120, new |-> V121]
  /\ vout = "unchecked"

-----------------------------------------------------------------------------
(* Actions *)

\* lines 75-83: nothing is tested before the manifest request is sent
fetchUpdate(a) ==
  /\ pc[a] = "idle"
  /\ \A b \in Attempts : b < a => pc[b] # "idle"
  /\ pc' = [pc EXCEPT ![a] = "manifest"]
  /\ reqs' = [reqs EXCEPT ![a] = Append(@, "manifest")]
  /\ afterApply' = [afterApply EXCEPT ![a] = \E b \in Attempts : applyCalls[b] > 0]
  /\ UNCHANGED <<update, sigVerdict, passed, artifact, outcome, applyCalls, tmpFile,
                 mainDB, dbHash, prefs, initCalls, vin, vout>>

\* lines 79-82 and 89-109: the manifest arrives
conditionallyApplyUpdate(a, body) ==
  LET stage == manifestStage(body, prefs) IN
  /\ pc[a] = "manifest"
  /\ update' = [update EXCEPT ![a] = body]
  /\ IF stage = "signature"
     THEN /\ pc' = [pc EXCEPT ![a] = "signature"]
          /\ reqs' = [reqs EXCEPT ![a] = Append(@, "signature")]
          /\ UNCHANGED outcome
     ELSE /\ pc' = [pc EXCEPT ![a] = "done"]
          /\ outcome' = [outcome EXCEPT ![a] = stage]
          /\ UNCHANGED reqs
  /\ UNCHANGED <<sigVerdict, passed, artifact, applyCalls, afterApply, tmpFile,
                 mainDB, dbHash, prefs, initCalls, vin, vout>>

\* try_request gives up after MAX_RSUPDATE_FETCHES tries: the callback never runs
requestExhausted(a) ==
  /\ pc[a] \in {"manifest", "signature"}
  /\ pc' = [pc EXCEPT ![a] = "done"]
  /\ outcome' = [outcome EXCEPT ![a] = "fetchFailed"]
  /\ UNCHANGED <<update, sigVerdict, passed, artifact, reqs, applyCalls, afterApply, tmpFile,
                 mainDB, dbHash, prefs, initCalls, vin, vout>>

\* lines 110-121 and 178-182, 212: the signature arrives
signatureCallback(a, sig) ==
  LET signature == trim(sig)
      upd       == capturedUpdate(a)
      accepted  == signatureAccepted(upd, signature)
  IN
  /\ pc[a] = "signature"
  /\ sigVerdict' = [sigVerdict EXCEPT ![a] =
                      IF verifyUpdateSignature(upd, signature) THEN "true" ELSE "false"]
  /\ passed' = [passed EXCEPT ![a] =
                  [verify |-> upd,                                    \* line 113
                   fetch  |-> IF accepted THEN fetchArgs(upd) ELSE NoArgs]]
  /\ IF accepted
     THEN /\ pc' = [pc EXCEPT ![a] = "artifact"]
          /\ reqs' = [reqs EXCEPT ![a] = Append(@, "artifact")]
          /\ UNCHANGED outcome
     ELSE /\ pc' = [pc EXCEPT ![a] = "done"]
          /\ outcome' = [outcome EXCEPT ![a] = "sigFail"]
          /\ UNCHANGED reqs
  /\ UNCHANGED <<update, artifact, applyCalls, afterApply, tmpFile, mainDB, dbHash,
                 prefs, initCalls, vin, vout>>

\* lines 183-211: xhr.onload
onload(a, response) ==
  LET staged   == writeByteArray(tmpFile, response)                     \* lines 192-196
      computed == hashBinaryFile(staged, passed[a].fetch.hashfn)
      r        == applyNewRuleset(mainDB, staged)
  IN
  /\ pc[a] = "artifact"
  /\ pc' = [pc EXCEPT ![a] = "done"]
  /\ artifact' = [artifact EXCEPT ![a] = response]
  /\ IF response = NoData
     THEN /\ outcome' = [outcome EXCEPT ![a] = "noData"]                \* line 208
          /\ UNCHANGED <<tmpFile, dbHash, mainDB, initCalls, applyCalls>>
     ELSE /\ dbHash' = computed                                         \* line 197
          /\ IF hashAccepted(computed, passed[a].fetch.hash)
             THEN /\ mainDB' = r.main                                   \* line 202
                  /\ tmpFile' = r.file
                  /\ initCalls' = initCalls + r.inits
                  /\ applyCalls' = [applyCalls EXCEPT ![a] = @ + 1]
                  /\ outcome' = [outcome EXCEPT ![a] =
                                   IF r.threw THEN "swapThrew" ELSE "applied"]
             ELSE /\ tmpFile' = staged
                  /\ outcome' = [outcome EXCEPT ![a] = "hashMismatch"]
                  /\ UNCHANGED <<mainDB, initCalls, applyCalls>>
  /\ UNCHANGED <<update, sigVerdict, passed, reqs, afterApply, prefs, vin, vout>>

\* the artifact request fails: onload never runs and no other handler is set
xhrError(a) ==
  /\ pc[a] = "artifact"
  /\ pc' = [pc EXCEPT ![a] = "done"]
  /\ outcome' = [outcome EXCEPT ![a] = "xhrError"]
  /\ UNCHANGED <<update, sigVerdict, passed, artifact, reqs, applyCalls, afterApply, tmpFile,
                 mainDB, dbHash, prefs, initCalls, vin, vout>>

Next ==
  \/ \E a \in Attempts : fetchUpdate(a)
  \/ \E a \in Attempts : \E body \in Bodies : conditionallyApplyUpdate(a, body)
  \/ \E a \in Attempts : requestExhausted(a)
  \/ \E a \in Attempts : \E sig \in Signatures : signatureCallback(a, sig)
  \/ \E a \in Attempts : \E response \in Artifacts \cup {NoData} : onload(a, response)
  \/ \E a \in Attempts : xhrError(a)

Spec == Init /\ [][Next]_vars

\* every outstanding request of an attempt ends: with a response or with a failure
Completes(a) ==
  \/ \E body \in Bodies : conditionallyApplyUpdate(a, body)
  \/ requestExhausted(a)
  \/ \E sig \in Signatures : signatureCallback(a, sig)
  \/ \E response \in Artifacts \cup {NoData} : onload(a, response)
  \/ xhrError(a)

LiveSpec == Spec /\ \A a \in Attempts : WF_vars(Completes(a))

-----------------------------------------------------------------------------
(* checkVersionRequirements called on its own *)

VersionInputs ==
  [ext : {V1, V12, V123, V19, V110},
   rs  : {V120, V14, V19, V110, V1231},
   new : {V12, V120, V121, V125, V130, V1231, V15, V19, V110, V1101}]

VInit ==
  /\ PipelineInit
  /\ vin \in VersionInputs
  /\ vout = "unchecked"

VCheck ==
  /\ vout = "unchecked"
  /\ vout' = IF checkVersionRequirements(vin.ext, vin.rs, vin.new) THEN "true" ELSE "false"
  /\ UNCHANGED <<pc, update, sigVerdict, passed, artifact, outcome, reqs, applyCalls,
                 afterApply,
                 tmpFile, mainDB, dbHash, prefs, initCalls, vin>>

VNext == VCheck

VSpec == VInit /\ [][VNext]_vars

-----------------------------------------------------------------------------
(* Properties *)

Range(f) == {f[i] : i \in DOMAIN f}

InFlight(a) == pc[a] \in {"manifest", "signature", "artifact"}

\* the digest hashBinaryFile computed over the file the attempt staged
StagedDigest(a) == hashBinaryFile(artifact[a], update[a].hashfn)

\* the attempt downloaded an artifact and wrote it to the staging path
Staged(a) == artifact[a] \in Artifacts

\* some request of the attempt returned no data
NetFailed(a) == outcome[a] \in {"fetchFailed", "xhrError", "noData"}

\* both tables hold the complete old rows or the complete rows of one artifact
TablesComplete(db) ==
  \/ db = OldTables
  \/ \E bytes \in {b \in Artifacts : IsSqlite(b)} : db = TempTables(bytes)

\* C1: an attempt whose staged artifact has a digest different from the
\* manifest's hash never executes applyNewRuleset, and when it has ended the
\* staged file is gone.
C1_DigestMismatchAborts ==
  \A a \in Attempts :
    (Staged(a) /\ StagedDigest(a) # update[a].hash)
      => (applyCalls[a] = 0 /\ (pc[a] = "done" => tmpFile = NoFile))

\* C2: an attempt for which verifyUpdateSignature returned false ends there:
\* it never requests the artifact and never executes applyNewRuleset, and the
\* callback that got the verdict leaves the live database and the staging path
\* as they were, whatever source, hashfn and hash the manifest names.
C2_BadSignatureLeavesDatabase ==
  /\ [](\A a \in Attempts :
          sigVerdict[a] = "false"
            => (pc[a] = "done" /\ applyCalls[a] = 0 /\ artifact[a] = "none"
                /\ "artifact" \notin Range(reqs[a])))
  /\ [][\A a \in Attempts :
          (sigVerdict[a] = "none" /\ sigVerdict'[a] = "false")
            => (mainDB' = mainDB /\ tmpFile' = tmpFile)]_vars

C2_Witness ==
  \E a \in Attempts :
    /\ sigVerdict[a] = "false"
    /\ pc[a] = "done"
    /\ update[a].hashfn = "sha3"
    /\ mainDB = OldTables

\* C3: an attempt whose manifest names a hashfn that hashBinaryFile does not
\* know (it returns null) never executes applyNewRuleset.
C3_UnknownHashfnFailsClosed ==
  \A a \in Attempts :
    (Staged(a) /\ StagedDigest(a) = Null) => applyCalls[a] = 0

\* the manifests that some attempt has run applyNewRuleset for
AppliedBodies == {update[b] : b \in {c \in Attempts : applyCalls[c] > 0}}

\* C4: once applyNewRuleset has run for a manifest (which should leave that
\* manifest's version in RULESET_VERSION_PREF), an attempt that is started
\* afterwards and receives the same manifest stops at the version gate: its
\* only request is the manifest request.
C4_SecondRunStopsAtVersionGate ==
  [][\A b \in Attempts :
       (afterApply[b] /\ pc[b] = "manifest" /\ update'[b] \in AppliedBodies)
         => (outcome'[b] = "versionGate" /\ reqs'[b] = <<"manifest">>)]_vars

\* C5: in every state the live database's two tables hold the complete old
\* contents or the complete contents of a staged artifact.
C5_TablesAlwaysComplete == TablesComplete(mainDB)

\* C6: at most one attempt is in flight (between its manifest request and its
\* end) at any time.
C6_OneAttemptInFlight == Cardinality({a \in Attempts : InFlight(a)}) <= 1

\* C7: while two attempts overlap, every callback leaves the live database
\* with the complete old contents or the complete contents of an artifact.
C7_OverlapLeavesTablesComplete ==
  [][(\E a, b \in Attempts : a # b /\ InFlight(a) /\ InFlight(b))
       => TablesComplete(mainDB')]_vars

\* the manifest passes the version gate as the specification words it
VersionEligible(a) ==
  /\ JSONParses(update[a])
  /\ update[a].version # Undefined
  /\ checkVersionRequirements(prefs.release_version, prefs.ruleset_version,
                              update[a].version)

\* C8 as amended: an attempt whose manifest has a newer version with the
\* matching parent version and names the configured branch eventually executes
\* applyNewRuleset, unless its signature does not verify or one of its requests
\* returns no data.  (What an attempt has received and done stays so, hence
\* "eventually" is "from some point on".)
C8_EligibleReachesSwapper ==
  \A a \in Attempts :
    <>[]((VersionEligible(a) /\ update[a].branch = prefs.branch_name)
           => (applyCalls[a] > 0 \/ sigVerdict[a] = "false" \/ NetFailed(a)))

C8_Witness ==
  \E a \in Attempts :
    /\ VersionEligible(a)
    /\ update[a].branch = prefs.branch_name
    /\ sigVerdict[a] = "true"
    /\ applyCalls[a] > 0

\* C8 as stated: whatever its branch, an attempt that has ended, whose manifest
\* passes the version gate, whose signature did not fail and whose requests all
\* returned data has executed applyNewRuleset.
C8_Original ==
  \A a \in Attempts :
    (pc[a] = "done" /\ VersionEligible(a) /\ sigVerdict[a] # "false" /\ ~NetFailed(a))
      => applyCalls[a] > 0

\* the part of a version before its last dot; none when it has no dot
HasDot(v) == \E i \in 1..Len(v) : v[i] = "."

BeforeLastDot(v) == SubSeq(v, 1, Max({i \in 1..Len(v) : v[i] = "."}) - 1)

\* C9: checkVersionRequirements returns true exactly when the part of
\* newVersion before its last dot equals extVersion and newVersion is greater
\* than rsVersion, both compared number by number; otherwise false.
C9_GateIsPrefixEqualAndNewer ==
  vout # "unchecked"
    => ((vout = "true")
          <=> (/\ HasDot(vin.new)
               /\ VersionParts(BeforeLastDot(vin.new)) = VersionParts(vin.ext)
               /\ VersionCompare(vin.new, vin.rs) = 1))

\* C10 as amended: with extension version 1.2.3 and database version 1.2.0
\* the gate rejects 1.2.5 (1.2 is not 1.2.3), 1.3.0 and 1.2.0, and accepts
\* 1.2.3.1.
C10_GateExamples ==
  (vout # "unchecked" /\ vin.ext = V123 /\ vin.rs = V120)
    => /\ vin.new \in {V125, V130, V120} => vout = "false"
       /\ vin.new = V1231 => vout = "true"

C10_Witness ==
  /\ vin = [ext |-> V123, rs |-> V120, new |-> V125]
  /\ vout = "false"

\* C10 as stated: with extension version 1.2.3 and database version 1.2.0 the
\* gate accepts 1.2.5 and rejects 1.3.0 and 1.2.0.
C10_Original ==
  (vout # "unchecked" /\ vin.ext = V123 /\ vin.rs = V120)
    => /\ vin.new = V125 => vout = "true"
       /\ vin.new \in {V130, V120} => vout = "false"

\* C11: an attempt whose manifest names another branch than the configured one
\* is a no-op: its only request is the manifest request, no signature is
\* verified, nothing is staged and applyNewRuleset is not executed, even when
\* the manifest's version passes the version gate.
C11_WrongBranchIsNoOp ==
  \A a \in Attempts :
    (JSONParses(update[a]) /\ update[a].branch # prefs.branch_name)
      => /\ pc[a] = "done"
         /\ reqs[a] = <<"manifest">>
         /\ sigVerdict[a] = "none"
         /\ artifact[a] = "none"
         /\ applyCalls[a] = 0

C11_Witness ==
  \E a \in Attempts :
    /\ VersionEligible(a)
    /\ update[a].branch = "beta"
    /\ outcome[a] = "branchGate"

\* the source URL uses HTTPS
IsHttps(url) == url = "https://db"

\* C12: an attempt whose manifest's source is not an HTTPS URL requests no
\* artifact, stages nothing and does not execute applyNewRuleset.
C12_NonHttpsSourceNotFetched ==
  \A a \in Attempts :
    (JSONParses(update[a]) /\ ~IsHttps(update[a].source))
      => /\ "artifact" \notin Range(reqs[a])
         /\ artifact[a] = "none"
         /\ applyCalls[a] = 0

\* the manifest body does not parse or lacks its version
Malformed(upd) == upd # NoBody /\ (~JSONParses(upd) \/ upd.version = Undefined)

\* C13: an attempt whose manifest body does not parse or lacks a field ends
\* without an exception leaving conditionallyApplyUpdate, with the manifest
\* request as its only request and without executing applyNewRuleset.
C13_MalformedManifestHandled ==
  \A a \in Attempts :
    Malformed(update[a])
      => /\ outcome[a] \notin {"SyntaxError", "TypeError"}
         /\ reqs[a] = <<"manifest">>
         /\ applyCalls[a] = 0

\* C14: when no attempt is in flight and some attempt has staged an artifact,
\* there is no file at the staging path.
C14_NoStagedFileAfterAttempt ==
  ((\A a \in Attempts : ~InFlight(a)) /\ (\E a \in Attempts : Staged(a)))
    => tmpFile = NoFile

\* C15: the callback that runs applyNewRuleset on a staged ruleset database
\* replaces the live tables by the staged ones, invokes HTTPSRules.init once
\* and leaves no file at the staging path.
C15_SwapReplacesReloadsDeletes ==
  [][\A a \in Attempts :
       (applyCalls'[a] > applyCalls[a] /\ IsSqlite(artifact'[a]))
         => /\ mainDB' = TempTables(artifact'[a])
            /\ initCalls' = initCalls + 1
            /\ tmpFile' = NoFile]_vars

\* the order in which an attempt issues its requests
RequestOrder == <<"manifest", "signature", "artifact">>

\* C16: an attempt's requests are a prefix of manifest, signature, artifact,
\* each issued after the response to the one before; the signature request
\* only for a manifest that passed the version gate and the branch gate; the
\* artifact request and the staging write only after verifyUpdateSignature
\* returned true.
C16_RequestsInOrderBehindGates ==
  \A a \in Attempts :
    /\ Len(reqs[a]) <= 3
    /\ reqs[a] = SubSeq(RequestOrder, 1, Len(reqs[a]))
    /\ Len(reqs[a]) >= 2
         => (update[a] # NoBody /\ VersionEligible(a)
             /\ update[a].branch = prefs.branch_name)
    /\ Len(reqs[a]) >= 3 => sigVerdict[a] = "true"
    /\ Staged(a) => (sigVerdict[a] = "true" /\ Len(reqs[a]) = 3)

C16_Witness ==
  \E a \in Attempts :
    /\ reqs[a] = RequestOrder
    /\ Staged(a)
    /\ sigVerdict[a] = "true"

\* C17: the string an attempt passes to verifyUpdateSignature is the manifest
\* body that attempt received, and the arguments it passes to
\* fetchRulesetDBFile are the source, hashfn and hash of that body, also while
\* attempts overlap.
C17_CallbacksUseOwnManifest ==
  \A a \in Attempts :
    /\ sigVerdict[a] # "none" => passed[a].verify = update[a]
    /\ "artifact" \in Range(reqs[a])
         => passed[a].fetch = [url    |-> update[a].source,
                               hashfn |-> update[a].hashfn,
                               hash   |-> update[a].hash]

C17_Witness ==
  \E a, b \in Attempts :
    /\ a < b
    /\ update[a] # update[b]
    /\ pc[a] = "artifact"
    /\ pc[b] = "artifact"
    /\ passed[a].fetch.hashfn # passed[b].fetch.hashfn

\* C18: the callback of an artifact download that brought no data does not
\* execute applyNewRuleset, leaves the live database as it was, and leaves no
\* file at the staging path.
C18_NoDataLeavesNothingStaged ==
  [][\A a \in Attempts :
       (pc[a] = "artifact" /\ outcome'[a] = "noData")
         => /\ applyCalls'[a] = 0
            /\ mainDB' = mainDB
            /\ tmpFile' = NoFile]_vars

\* the outcomes in which the attempt ended by returning, not by an exception
HandledOutcomes ==
  {"versionGate", "branchGate", "fetchFailed", "sigFail", "noData", "xhrError",
   "hashMismatch", "applied"}

\* C19: an attempt that has ended has ended in a handled outcome, not in an
\* uncaught exception.
C19_AttemptsEndHandled ==
  \A a \in Attempts : pc[a] = "done" => outcome[a] \in HandledOutcomes

\* C20: the callback that runs applyNewRuleset leaves at the staging path the
\* bytes its own attempt downloaded, has hashed those bytes, and has run
\* applyNewRuleset on those bytes, also while another attempt is in flight.
C20_SwapReadsOwnDownload ==
  [][\A a \in Attempts :
       applyCalls'[a] > applyCalls[a]
         => /\ tmpFile' = artifact'[a]
            /\ dbHash' = hashBinaryFile(artifact'[a], update[a].hashfn)
            /\ mainDB' = applyNewRuleset(mainDB, artifact'[a]).main]_vars

C20_Witness ==
  \E a, b \in Attempts :
    /\ b < a
    /\ pc[b] = "artifact"
    /\ applyCalls[a] > 0
    /\ artifact[a] = "dbB"
    /\ tmpFile = "dbB"
    /\ mainDB # OldTables

====
